---- MODULE Spec2Model ----
(***************************************************************************)
(* Model of NPD_SAT_Prototype.py: the two Dash callbacks                   *)
(* (display_dam_details_and_zoom, update_plots) and the helpers they call  *)
(* (fetch_usgs_data, assign_season, plot_flow_duration_curve).             *)
(*                                                                         *)
(* Representation choices:                                                 *)
(*  - Python strings that the code orders (groupby sorts its keys) are     *)
(*    tuples of one-character strings, compared by code point.             *)
(*  - Floats that result from a division are exact fractions               *)
(*    [num, den] in lowest terms; NaN is the fraction 0/0.                 *)
(*  - Latitudes/longitudes are in tenths of a degree, map zoom in tenths,  *)
(*    float dam attributes in units of 1/10000.                            *)
(*  - A datetime is [year, month]; the code only reads .dt.month.          *)
(***************************************************************************)
EXTENDS Integers, Sequences, FiniteSets, TLC

\* ------------------------------------------------------------------ bounds
MaxLen == 3          \* longest observation series the data source returns
MaxFlow == 2         \* discharges are 25, 50, ..., 25 * MaxFlow
MaxClicks == 2       \* cap on the submit button's click counter
MaxDams == 2         \* rows of the dam inventory

\* ------------------------------------------------------- strings and floats
Ord ==
  "A" :> 65 @@ "D" :> 68 @@ "F" :> 70 @@ "J" :> 74 @@ "M" :> 77 @@ "N" :> 78 @@
  "O" :> 79 @@ "S" :> 83 @@ "W" :> 87 @@ "a" :> 97 @@ "b" :> 98 @@ "c" :> 99 @@
  "e" :> 101 @@ "g" :> 103 @@ "i" :> 105 @@ "l" :> 108 @@ "m" :> 109 @@
  "n" :> 110 @@ "o" :> 111 @@ "p" :> 112 @@ "r" :> 114 @@ "t" :> 116 @@
  "u" :> 117 @@ "v" :> 118 @@ "y" :> 121

RECURSIVE StrLess(_, _)
StrLess(a, b) ==
  IF a = <<>> THEN b # <<>>
  ELSE IF b = <<>> THEN FALSE
  ELSE IF Ord[Head(a)] # Ord[Head(b)] THEN Ord[Head(a)] < Ord[Head(b)]
  ELSE StrLess(Tail(a), Tail(b))

RECURSIVE GCD(_, _)
GCD(a, b) == IF b = 0 THEN a ELSE GCD(b, a % b)

NaN == [num |-> 0, den |-> 0]

Frac(n, d) ==
  IF d = 0 THEN NaN
  ELSE LET g == GCD(n, d) IN IF g = 0 THEN [num |-> 0, den |-> 1]
                             ELSE [num |-> n \div g, den |-> d \div g]

\* ------------------------------------------------------------ month labels
month_abbr ==
  << <<"J","a","n">>, <<"F","e","b">>, <<"M","a","r">>, <<"A","p","r">>,
     <<"M","a","y">>, <<"J","u","n">>, <<"J","u","l">>, <<"A","u","g">>,
     <<"S","e","p">>, <<"O","c","t">>, <<"N","o","v">>, <<"D","e","c">> >>

Winter == <<"W","i","n","t","e","r">>
Spring == <<"S","p","r","i","n","g">>
Summer == <<"S","u","m","m","e","r">>
Fall == <<"F","a","l","l">>

assign_season_shifted(month) ==
  IF 3 < month /\ month <= 5 THEN Spring
  ELSE IF 6 <= month /\ month <= 8 THEN Summer
  ELSE IF 9 <= month /\ month <= 11 THEN Fall
  ELSE Winter

assign_season(month) ==
  IF 3 <= month /\ month <= 5 THEN Spring
  ELSE IF 6 <= month /\ month <= 8 THEN Summer
  ELSE IF 9 <= month /\ month <= 11 THEN Fall
  ELSE Winter

\* -------------------------------------------------------------- pandas bits
RECURSIVE SumSeq(_)
SumSeq(s) == IF s = <<>> THEN 0 ELSE Head(s) + SumSeq(Tail(s))

\* Series.mean(): sum / count
mean(vals) == Frac(SumSeq(vals), Len(vals))

\* the sorted list of distinct group keys
RECURSIVE SortedKeys(_)
SortedKeys(S) ==
  IF S = {} THEN <<>>
  ELSE LET m == CHOOSE k \in S : \A o \in S \ {k} : StrLess(k, o)
       IN <<m>> \o SortedKeys(S \ {m})

\* the cfs values of the rows whose key is k, in row order
RECURSIVE GroupValues(_, _, _)
GroupValues(keys, cfs, k) ==
  IF keys = <<>> THEN <<>>
  ELSE (IF Head(keys) = k THEN <<Head(cfs)>> ELSE <<>>)
         \o GroupValues(Tail(keys), Tail(cfs), k)

\* df.groupby(<key column>)['cfs'].mean(): one entry per key that occurs,
\* entries sorted by key
groupby_mean(keys, cfs) ==
  LET ks == SortedKeys({keys[i] : i \in DOMAIN keys})
  IN [g \in DOMAIN ks |->
        [label |-> ks[g], value |-> mean(GroupValues(keys, cfs, ks[g]))]]

reindex_fill0(series, labels) ==
  [i \in DOMAIN labels |->
     [label |-> labels[i],
      value |-> IF \E j \in DOMAIN series : series[j].label = labels[i]
                THEN series[CHOOSE j \in DOMAIN series :
                              series[j].label = labels[i]].value
                ELSE [num |-> 0, den |-> 1]]]

\* Series.reindex(labels): the labels in the given order, NaN where absent
reindex(series, labels) ==
  [i \in DOMAIN labels |->
     [label |-> labels[i],
      value |-> IF \E j \in DOMAIN series : series[j].label = labels[i]
                THEN series[CHOOSE j \in DOMAIN series :
                              series[j].label = labels[i]].value
                ELSE NaN]]

\* DataFrame.sort_values('cfs', ascending=False)
RECURSIVE InsertDesc(_, _)
InsertDesc(sorted, row) ==
  IF sorted = <<>> THEN <<row>>
  ELSE IF Head(sorted).cfs >= row.cfs
       THEN <<Head(sorted)>> \o InsertDesc(Tail(sorted), row)
       ELSE <<row>> \o sorted

RECURSIVE sort_values(_)
sort_values(rows) ==
  IF rows = <<>> THEN <<>>
  ELSE InsertDesc(sort_values(SubSeq(rows, 1, Len(rows) - 1)), rows[Len(rows)])

rank_first_pct(vals) ==
  [i \in DOMAIN vals |->
     Frac(Cardinality({j \in DOMAIN vals : vals[j] < vals[i]})
            + Cardinality({j \in DOMAIN vals : vals[j] = vals[i] /\ j >= i}),
          Len(vals))]

\* Series.rank(method='min', pct=True): ascending rank, ties share the lowest
\* rank of their group, divided by the number of values
rank_min_pct(vals) ==
  [i \in DOMAIN vals |->
     Frac(1 + Cardinality({j \in DOMAIN vals : vals[j] < vals[i]}), Len(vals))]

\* 100 - f * 100
HundredMinusPct(f) == Frac(100 * f.den - 100 * f.num, f.den)

\* ------------------------------------------------------------------ figures
SelectText == "Select a site and date range"
NoDataText == "No data available for the selected range"

\* go.Figure().add_annotation(text=...)
Annotation(text) == [kind |-> "annotation", text |-> text, x |-> <<>>, y |-> <<>>]
\* px.line(frame, x=..., y=...)
LineFigure(xs, ys) == [kind |-> "line", text |-> "", x |-> xs, y |-> ys]
\* px.bar(series): x is the index, y the values
BarFigure(series) ==
  [kind |-> "bar", text |-> "",
   x |-> [i \in DOMAIN series |-> series[i].label],
   y |-> [i \in DOMAIN series |-> series[i].value]]
\* a dcc.Graph that no callback has filled yet
NoFigure == [kind |-> "none", text |-> "", x |-> <<>>, y |-> <<>>]

Column(rows, c) == [i \in DOMAIN rows |-> rows[i][c]]

plot_flow_duration_curve(df_in) ==
  LET df_sorted == sort_values(df_in)
      exceedance_probability == rank_min_pct(Column(df_sorted, "cfs"))
      exceedance == [i \in DOMAIN df_sorted |->
                       HundredMinusPct(exceedance_probability[i])]
  IN LineFigure(exceedance, Column(df_sorted, "cfs"))

\* --------------------------------------------------------- the data source
None == "None"
Truthy(v) == v # None /\ v # ""

MeanColumn == "00060_Mean"
OtherColumn == "00065_Mean"

fetch_usgs_data_any_column(response) ==
  IF response.rows # <<>>
  THEN [i \in DOMAIN response.rows |->
          [datetime |-> response.rows[i].datetime, cfs |-> response.rows[i].value]]
  ELSE <<>>

\* nwis.get_dv answers with response; the result is the frame with the
\* discharge column renamed to cfs, or an empty frame
fetch_usgs_data(response) ==
  IF response.rows # <<>> /\ response.column = MeanColumn
  THEN [i \in DOMAIN response.rows |->
          [datetime |-> response.rows[i].datetime, cfs |-> response.rows[i].value]]
  ELSE <<>>

update_plots_guard_no_end(clicks, site, start, end) ==
  clicks > 0 /\ Truthy(site) /\ Truthy(start)

update_plots_guard(clicks, site, start, end) ==
  clicks > 0 /\ Truthy(site) /\ Truthy(start) /\ Truthy(end)

\* update_plots: the four figures, the frame it built (with the columns it
\* added), and whether the data source was called
update_plots(clicks, site, start, end, response) ==
  IF update_plots_guard(clicks, site, start, end)
  THEN LET fetched_df == fetch_usgs_data(response)
       IN IF fetched_df # <<>>
          THEN LET frame_out ==
                     [i \in DOMAIN fetched_df |->
                        [datetime |-> fetched_df[i].datetime,
                         cfs |-> fetched_df[i].cfs,
                         season_name |-> assign_season(fetched_df[i].datetime.month),
                         month |-> fetched_df[i].datetime.month,
                         month_name |-> month_abbr[fetched_df[i].datetime.month]]]
                   cfs == Column(frame_out, "cfs")
                   seasonal_avg ==
                     reindex(groupby_mean(Column(frame_out, "season_name"), cfs),
                             <<Winter, Spring, Summer, Fall>>)
                   monthly_avg == groupby_mean(Column(frame_out, "month_name"), cfs)
               IN [fetched |-> TRUE,
                   frame |-> frame_out,
                   figures |-> << LineFigure(Column(frame_out, "datetime"), cfs),
                                  BarFigure(seasonal_avg),
                                  BarFigure(monthly_avg),
                                  plot_flow_duration_curve(frame_out) >>]
          ELSE [fetched |-> TRUE, frame |-> <<>>,
                figures |-> [i \in 1..4 |-> Annotation(NoDataText)]]
  ELSE [fetched |-> FALSE, frame |-> <<>>,
        figures |-> [i \in 1..4 |-> Annotation(SelectText)]]

\* ------------------------------------------------------- the dam inventory
StrVal(v) == [t |-> "str", s |-> v, n |-> 0]
IntVal(v) == [t |-> "int", s |-> "", n |-> v]
FloatVal(v) == [t |-> "float", s |-> "", n |-> v]      \* v in units of 1/10000
Fixed3(v) == [t |-> "fixed3", s |-> "", n |-> v]    \* the text of v/1000 with 3 decimals

\* f"{val:.3f}" if isinstance(val, float) else val
format_value(val) ==
  IF val.t = "float"
  THEN Fixed3(IF val.n >= 0 THEN (val.n + 5) \div 10 ELSE -((5 - val.n) \div 10))
  ELSE val

\* one row of NPD_App.csv
DamRecord(lat, lon, name, cap) ==
  [LATITUDE |-> lat, LONGITUDE |-> lon,
   DAM_NAME |-> StrVal(name), OWNER_NAME |-> StrVal("USACE"),
   PRMR_PRPS |-> StrVal("Recreation"), CAP_MW |-> FloatVal(cap),
   DIST_SUBST |-> FloatVal(cap + 10002), FEMA_HAZ |-> StrVal("Low"),
   DAM_COND |-> StrVal("Fair"), COMP_SCORE |-> FloatVal(254321),
   SPECIES_CT |-> IntVal(7), FSH_PSSG_PCT |-> FloatVal(123456),
   PROT_LAND |-> StrVal("No"), IMP_STREAM |-> StrVal("Yes"), CRIT_HAB |-> StrVal("No")]

Lats == {380, 400}
Lons == {-980, -1000}

DamPool ==
  { DamRecord(380, -980, "Alpha", 12346), DamRecord(380, -980, "Beta", 98764),
    DamRecord(400, -980, "Gamma", 12346), DamRecord(400, -980, "Delta", 98764) }

RECURSIVE SeqsUpTo(_, _)
SeqsUpTo(S, k) ==
  IF k = 0 THEN {<<>>}
  ELSE LET shorter == SeqsUpTo(S, k - 1)
       IN shorter \cup {Append(q, e) : q \in {r \in shorter : Len(r) = k - 1}, e \in S}

Inventories == SeqsUpTo(DamPool, MaxDams) \ {<<>>}

\* ------------------------------------------------------- the map callback
ReferenceLat == 388
ReferenceLon == -980
OverviewZoom == 35
FocusZoom == 150

NoClick == [points |-> <<>>]
ClickAt(lat, lon) == [points |-> <<[lat |-> lat, lon |-> lon]>>]

\* df[(df['LATITUDE'] == lat) & (df['LONGITUDE'] == lon)]
dam_rows(inventory, lat, lon) ==
  SelectSeq(inventory, LAMBDA r : r.LATITUDE = lat /\ r.LONGITUDE = lon)

table_data(row) ==
  << [Feature |-> "Dam Name", Value |-> row.DAM_NAME],
     [Feature |-> "Dam Owner", Value |-> row.OWNER_NAME],
     [Feature |-> "Primary Purpose", Value |-> row.PRMR_PRPS],
     [Feature |-> "Gen. Capacity (MW)", Value |-> format_value(row.CAP_MW)],
     [Feature |-> "Distance to Substation (Mi)", Value |-> format_value(row.DIST_SUBST)],
     [Feature |-> "FEMA Hazard Category", Value |-> row.FEMA_HAZ],
     [Feature |-> "Dam Condition", Value |-> row.DAM_COND],
     [Feature |-> "Dam Removal Consideration (%)", Value |-> format_value(row.COMP_SCORE)],
     [Feature |-> "Fish Species Count", Value |-> row.SPECIES_CT],
     [Feature |-> "Fish Passage Requirement (%)", Value |-> row.FSH_PSSG_PCT],
     [Feature |-> "Protected Land", Value |-> row.PROT_LAND],
     [Feature |-> "Impaired Stream", Value |-> row.IMP_STREAM],
     [Feature |-> "Critical Habitat", Value |-> row.CRIT_HAB] >>

\* html.Div(): no children
EmptyPanel == <<>>

MapFigure(lat, lon, zoom) == [center |-> [lat |-> lat, lon |-> lon], zoom |-> zoom]

display_keep_overview_zoom(click, inventory) ==
  IF click.points # <<>>
  THEN LET lat == click.points[1].lat
           lon == click.points[1].lon
           dam_row == dam_rows(inventory, lat, lon)
       IN [details |-> IF dam_row # <<>> THEN table_data(dam_row[1]) ELSE EmptyPanel,
           figure |-> MapFigure(lat, lon, OverviewZoom)]
  ELSE [details |-> EmptyPanel,
        figure |-> MapFigure(ReferenceLat, ReferenceLon, OverviewZoom)]

display_recenter_on_match_only(click, inventory) ==
  IF click.points # <<>>
  THEN LET lat == click.points[1].lat
           lon == click.points[1].lon
           dam_row == dam_rows(inventory, lat, lon)
       IN IF dam_row # <<>>
          THEN [details |-> table_data(dam_row[1]),
                figure |-> MapFigure(lat, lon, FocusZoom)]
          ELSE [details |-> EmptyPanel,
                figure |-> MapFigure(ReferenceLat, ReferenceLon, OverviewZoom)]
  ELSE [details |-> EmptyPanel,
        figure |-> MapFigure(ReferenceLat, ReferenceLon, OverviewZoom)]

display_last_match(click, inventory) ==
  IF click.points # <<>>
  THEN LET lat == click.points[1].lat
           lon == click.points[1].lon
           dam_row == dam_rows(inventory, lat, lon)
       IN [details |-> IF dam_row # <<>> THEN table_data(dam_row[Len(dam_row)])
                       ELSE EmptyPanel,
           figure |-> MapFigure(lat, lon, FocusZoom)]
  ELSE [details |-> EmptyPanel,
        figure |-> MapFigure(ReferenceLat, ReferenceLon, OverviewZoom)]

\* display_dam_details_and_zoom: the detail panel's children and the map figure
display_dam_details_and_zoom(click, inventory) ==
  IF click.points # <<>>
  THEN LET lat == click.points[1].lat
           lon == click.points[1].lon
           dam_row == dam_rows(inventory, lat, lon)
       IN [details |-> IF dam_row # <<>> THEN table_data(dam_row[1]) ELSE EmptyPanel,
           figure |-> MapFigure(lat, lon, FocusZoom)]
  ELSE [details |-> EmptyPanel,
        figure |-> MapFigure(ReferenceLat, ReferenceLon, OverviewZoom)]

\* ------------------------------------------------------ observation series
Months == 1..12
Flows == {25 * k : k \in 1..MaxFlow}

Observation(m, q) == [datetime |-> [year |-> 2020, month |-> m], value |-> q]

Response(rows, column) == [rows |-> rows, column |-> column]
NoSource == Response(<<>>, MeanColumn)

\* the answers of at most one row, with and without the discharge column
QuerySources ==
  {Response(r, c) : r \in {<<>>} \cup {<<Observation(m, q)>> : m \in Months, q \in Flows},
                    c \in {MeanColumn, OtherColumn}}

SiteValues == {None, "", "01646500"}
DateValues == {None, "2020-01-01", "2020-12-31"}

\* -------------------------------------------------------------------- state
VARIABLES
  df,           \* the dam inventory read from NPD_App.csv
  clickData,    \* your-map-graph.clickData
  mapReady,     \* the map callback has run for the page load
  details,      \* dam-details.children
  mapFigure,    \* your-map-graph.figure (its viewport)
  source,       \* what nwis.get_dv answers
  site_no,      \* site-number-input.value
  start_date,   \* start-date-picker.date
  end_date,     \* end-date-picker.date
  n_clicks,     \* submit-val.n_clicks
  figures,      \* the figures of the four dcc.Graph outputs
  frame,        \* the data frame the latest update_plots call worked on
  call          \* the latest update_plots call: its arguments, whether it fetched

mapVars == <<df, clickData, mapReady, details, mapFigure>>
plotVars == <<source, site_no, start_date, end_date, n_clicks, figures, frame, call>>
vars == <<df, clickData, mapReady, details, mapFigure,
          source, site_no, start_date, end_date, n_clicks, figures, frame, call>>

NoCall == [count |-> 0, n_clicks |-> 0, site_no |-> None, start_date |-> None,
           end_date |-> None, fetched |-> FALSE]

\* the layout as constructed, before any callback has run
InitMap ==
  /\ clickData = NoClick
  /\ mapReady = FALSE
  /\ details = EmptyPanel
  /\ mapFigure = MapFigure(ReferenceLat, ReferenceLon, OverviewZoom)

InitPlots ==
  /\ site_no = None
  /\ start_date = None
  /\ end_date = None
  /\ n_clicks = 0
  /\ figures = [i \in 1..4 |-> NoFigure]
  /\ frame = <<>>
  /\ call = NoCall

\* ------------------------------------------------------------------ actions
\* Dash runs every callback once when the page loads
MapPageLoad ==
  /\ ~mapReady
  /\ LET out == display_dam_details_and_zoom(clickData, df)
     IN /\ details' = out.details
        /\ mapFigure' = out.figure
  /\ mapReady' = TRUE
  /\ UNCHANGED <<df, clickData>>
  /\ UNCHANGED plotVars

\* the user clicks the map at (lat, lon)
MapClick(lat, lon) ==
  /\ mapReady
  /\ clickData' = ClickAt(lat, lon)
  /\ LET out == display_dam_details_and_zoom(clickData', df)
     IN /\ details' = out.details
        /\ mapFigure' = out.figure
  /\ UNCHANGED <<df, mapReady>>
  /\ UNCHANGED plotVars

RunUpdatePlots(clicks) ==
  LET out == update_plots(clicks, site_no, start_date, end_date, source)
  IN /\ figures' = out.figures
     /\ frame' = out.frame
     /\ call' = [count |-> call.count + 1, n_clicks |-> clicks,
                 site_no |-> site_no, start_date |-> start_date,
                 end_date |-> end_date, fetched |-> out.fetched]

PlotsPageLoad ==
  /\ call.count = 0
  /\ RunUpdatePlots(n_clicks)
  /\ UNCHANGED <<source, site_no, start_date, end_date, n_clicks>>
  /\ UNCHANGED mapVars

\* the form fields are State, not Input: editing them runs no callback
SetSite(v) ==
  /\ call.count > 0
  /\ site_no # v
  /\ site_no' = v
  /\ UNCHANGED <<source, start_date, end_date, n_clicks, figures, frame, call>>
  /\ UNCHANGED mapVars

SetStart(v) ==
  /\ call.count > 0
  /\ start_date # v
  /\ start_date' = v
  /\ UNCHANGED <<source, site_no, end_date, n_clicks, figures, frame, call>>
  /\ UNCHANGED mapVars

SetEnd(v) ==
  /\ call.count > 0
  /\ end_date # v
  /\ end_date' = v
  /\ UNCHANGED <<source, site_no, start_date, n_clicks, figures, frame, call>>
  /\ UNCHANGED mapVars

\* the user presses Submit
Submit ==
  /\ call.count > 0
  /\ n_clicks < MaxClicks
  /\ n_clicks' = n_clicks + 1
  /\ RunUpdatePlots(n_clicks')
  /\ UNCHANGED <<source, site_no, start_date, end_date>>
  /\ UNCHANGED mapVars

\* the gauge's record for the queried range, laid down a row at a time
\* (oldest first) before the first query is submitted
Record(m, q) ==
  /\ call.count > 0
  /\ n_clicks = 0
  /\ source.column = MeanColumn
  /\ Len(source.rows) < MaxLen
  /\ IF source.rows = <<>> THEN TRUE
     ELSE source.rows[Len(source.rows)].datetime.month <= m
  /\ source' = [source EXCEPT !.rows = Append(@, Observation(m, q))]
  /\ UNCHANGED <<site_no, start_date, end_date, n_clicks, figures, frame, call>>
  /\ UNCHANGED mapVars

\* ----------------------------------------------------------- specifications
OneDam == << DamRecord(380, -980, "Alpha", 12346) >>

\* the selection machine: any inventory, the plots left alone
InitSelection == df \in Inventories /\ InitMap /\ source = NoSource /\ InitPlots
NextSelection == MapPageLoad \/ \E lat \in Lats, lon \in Lons : MapClick(lat, lon)
SpecSelection == InitSelection /\ [][NextSelection]_vars

\* the query machine: any form input, short answers from the data source
InitQuery == df = OneDam /\ InitMap /\ source \in QuerySources /\ InitPlots
NextQuery ==
  \/ PlotsPageLoad
  \/ \E v \in SiteValues : SetSite(v)
  \/ \E v \in DateValues : SetStart(v)
  \/ \E v \in DateValues : SetEnd(v)
  \/ Submit
SpecQuery == InitQuery /\ [][NextQuery]_vars

\* the aggregations: the page loaded and the form filled in, every
\* chronological answer of up to MaxLen rows
InitAggregate ==
  /\ df = OneDam /\ InitMap
  /\ source = NoSource
  /\ site_no = "01646500" /\ start_date = "2020-01-01" /\ end_date = "2020-12-31"
  /\ n_clicks = 0
  /\ figures = [i \in 1..4 |-> Annotation(SelectText)]
  /\ frame = <<>>
  /\ call = [NoCall EXCEPT !.count = 1]
NextAggregate == Submit \/ \E m \in Months, q \in Flows : Record(m, q)
SpecAggregate == InitAggregate /\ [][NextAggregate]_vars

\* ------------------------------------------------------------------- claims
\* what the claims are stated with, independently of the operators above
Hundred == [num |-> 100, den |-> 1]
FracLeq(a, b) == a.num * b.den <= b.num * a.den
Present(v) == v # None /\ v # ""
AllFigures(f) == \A i \in 1..4 : figures[i] = f
Rendered == call.fetched /\ source.column = MeanColumn /\ source.rows # <<>>
RowsWhere(P(_)) == {i \in DOMAIN source.rows : P(source.rows[i])}
RECURSIVE SumOver(_)
SumOver(I) ==
  IF I = {} THEN 0
  ELSE LET i == CHOOSE j \in I : TRUE IN source.rows[i].value + SumOver(I \ {i})
\* v is the arithmetic mean of the discharges of the rows I
IsMeanOf(v, I) == v.den # 0 /\ v.num * Cardinality(I) = SumOver(I) * v.den
MonthNumber(label) == CHOOSE m \in Months : month_abbr[m] = label
SeasonMonths(s) ==
  IF s = Spring THEN {3, 4, 5}
  ELSE IF s = Summer THEN {6, 7, 8}
  ELSE IF s = Fall THEN {9, 10, 11}
  ELSE {12, 1, 2}

\* C1: update_plots calls the data source only when n_clicks > 0 and the site
\* and both dates are present; any other call fetches nothing and puts the
\* "Select a site and date range" placeholder on all four charts.
C1_GuardedFetch ==
  LET passes == /\ call.n_clicks > 0
                /\ Present(call.site_no)
                /\ Present(call.start_date)
                /\ Present(call.end_date)
  IN /\ call.fetched => passes
     /\ (call.count > 0 /\ ~passes) =>
          (~call.fetched /\ AllFigures(Annotation(SelectText)))

C1_Witness ==
  /\ call.n_clicks > 0
  /\ call.site_no = ""
  /\ Present(call.start_date) /\ Present(call.end_date)
  /\ ~call.fetched
  /\ AllFigures(Annotation(SelectText))

\* C2: a submit that passes the guard and gets no rows, or rows without the
\* discharge column, puts the "No data available" placeholder on all four
\* charts; every call leaves four select placeholders, four no-data
\* placeholders, or four charts of the one fetched series.
C2_EmptyUniform ==
  /\ (call.fetched /\ (source.rows = <<>> \/ source.column # MeanColumn)) =>
       AllFigures(Annotation(NoDataText))
  /\ call.count > 0 =>
       \/ AllFigures(Annotation(SelectText))
       \/ AllFigures(Annotation(NoDataText))
       \/ /\ Rendered
          /\ figures[1] = LineFigure([i \in DOMAIN source.rows |-> source.rows[i].datetime],
                                     [i \in DOMAIN source.rows |-> source.rows[i].value])
          /\ figures[2].kind = "bar" /\ Len(figures[2].y) = 4
          /\ figures[3].kind = "bar"
          /\ \A i \in DOMAIN figures[3].x :
               \E k \in DOMAIN source.rows :
                 figures[3].x[i] = month_abbr[source.rows[k].datetime.month]
          /\ figures[4].kind = "line"
          /\ \A q \in Flows :
               Cardinality({i \in DOMAIN figures[4].y : figures[4].y[i] = q})
                 = Cardinality(RowsWhere(LAMBDA r : r.value = q))

C2_Witness ==
  /\ call.fetched
  /\ source.rows # <<>>
  /\ source.column # MeanColumn
  /\ AllFigures(Annotation(NoDataText))

\* C3: the monthly means have one bucket for each month that occurs in the
\* series and none for the others, each the arithmetic mean of that month's
\* discharges, in calendar order Jan, Feb, ..., Dec.
C3_MonthlyCalendarOrder ==
  Rendered =>
    LET fig == figures[3]
        present == {source.rows[i].datetime.month : i \in DOMAIN source.rows}
    IN /\ Len(fig.x) = Cardinality(present)
       /\ \A m \in present :
            \E i \in DOMAIN fig.x :
              /\ fig.x[i] = month_abbr[m]
              /\ IsMeanOf(fig.y[i], RowsWhere(LAMBDA r : r.datetime.month = m))
       /\ \A i, j \in DOMAIN fig.x :
            i < j => MonthNumber(fig.x[i]) < MonthNumber(fig.x[j])

\* C4: the seasonal means are exactly four buckets in the order Winter,
\* Spring, Summer, Fall; a season with observations carries the arithmetic
\* mean of its discharges, a season with none a missing mean, never zero.
C4_SeasonalBuckets ==
  Rendered =>
    LET fig == figures[2]
    IN /\ fig.x = <<Winter, Spring, Summer, Fall>>
       /\ Len(fig.y) = 4
       /\ \A i \in 1..4 :
            LET rows == RowsWhere(LAMBDA r : r.datetime.month \in SeasonMonths(fig.x[i]))
            IN IF rows = {} THEN fig.y[i] = NaN /\ fig.y[i] # [num |-> 0, den |-> 1]
               ELSE IsMeanOf(fig.y[i], rows)

C4_Witness ==
  /\ Rendered
  /\ [i \in DOMAIN source.rows |->
        <<source.rows[i].datetime.month, source.rows[i].value>>]
       = << <<1, 25>>, <<1, 50>>, <<7, 50>> >>
  /\ figures[2].y = << [num |-> 75, den |-> 2], NaN, [num |-> 50, den |-> 1], NaN >>

\* C5: on the flow-duration curve the observations with the lowest discharge
\* are at exceedance 100%, and observations tied on discharge share one
\* exceedance value.
C5_LowestAtHundred ==
  Rendered =>
    LET fig == figures[4]
    IN /\ \A i \in DOMAIN fig.y :
            (\A j \in DOMAIN fig.y : fig.y[i] <= fig.y[j]) => fig.x[i] = Hundred
       /\ \A i, j \in DOMAIN fig.y : fig.y[i] = fig.y[j] => fig.x[i] = fig.x[j]

\* C6: the flow-duration curve has one point per observation; of two points
\* the one with the higher discharge has the lower or equal exceedance,
\* equal discharges have equal exceedance, and every exceedance is in [0, 100].
C6_FlowDurationMonotone ==
  Rendered =>
    LET fig == figures[4]
    IN /\ Len(fig.x) = Len(source.rows)
       /\ Len(fig.y) = Len(source.rows)
       /\ \A q \in Flows :
            Cardinality({i \in DOMAIN fig.y : fig.y[i] = q})
              = Cardinality(RowsWhere(LAMBDA r : r.value = q))
       /\ \A i, j \in DOMAIN fig.y :
            /\ fig.y[i] > fig.y[j] => FracLeq(fig.x[i], fig.x[j])
            /\ fig.y[i] = fig.y[j] => fig.x[i] = fig.x[j]
       /\ \A i \in DOMAIN fig.x :
            /\ fig.x[i].den > 0
            /\ 0 <= fig.x[i].num
            /\ FracLeq(fig.x[i], Hundred)

C6_Witness ==
  /\ Rendered
  /\ figures[4].y = <<50, 50, 25>>
  /\ figures[4].x[1] = figures[4].x[2]
  /\ figures[4].x[3] # figures[4].x[1]

\* C10: assign_season gives every month 1..12 exactly one of the four
\* seasons: 3-5 Spring, 6-8 Summer, 9-11 Fall, 12, 1, 2 Winter.
C10_SeasonPartition ==
  \A i \in DOMAIN frame :
    LET m == source.rows[i].datetime.month
        s == frame[i].season_name
    IN /\ m \in 1..12
       /\ s \in {Winter, Spring, Summer, Fall}
       /\ (s = Spring) = (m \in {3, 4, 5})
       /\ (s = Summer) = (m \in {6, 7, 8})
       /\ (s = Fall) = (m \in {9, 10, 11})
       /\ (s = Winter) = (m \in {12, 1, 2})

C10_Witness ==
  /\ Len(frame) = 3
  /\ frame[1].month = 2 /\ frame[1].season_name = Winter
  /\ frame[2].month = 3 /\ frame[2].season_name = Spring
  /\ frame[3].month = 12 /\ frame[3].season_name = Winter

\* the inventory rows at the clicked coordinates
MatchIdx ==
  IF clickData.points = <<>> THEN {}
  ELSE {i \in DOMAIN df : /\ df[i].LATITUDE = clickData.points[1].lat
                          /\ df[i].LONGITUDE = clickData.points[1].lon}
Clicked == clickData.points # <<>>
CenteredOnClick(zoom) ==
  /\ mapFigure.center = [lat |-> clickData.points[1].lat, lon |-> clickData.points[1].lon]
  /\ mapFigure.zoom = zoom
AtOverview ==
  /\ mapFigure.center = [lat |-> ReferenceLat, lon |-> ReferenceLon]
  /\ mapFigure.zoom = OverviewZoom
PanelColumns ==
  << "DAM_NAME", "OWNER_NAME", "PRMR_PRPS", "CAP_MW", "DIST_SUBST", "FEMA_HAZ",
     "DAM_COND", "COMP_SCORE", "SPECIES_CT", "FSH_PSSG_PCT", "PROT_LAND",
     "IMP_STREAM", "CRIT_HAB" >>
\* the cell shows the value: verbatim, or a float as its 3-decimal text
Shows(cell, v) ==
  \/ cell = v
  \/ /\ v.t = "float" /\ cell.t = "fixed3"
     /\ 10 * cell.n - v.n <= 5 /\ v.n - 10 * cell.n <= 5
\* the detail panel shows the 13 attributes of record r
PanelShows(r) ==
  /\ Len(details) = 13
  /\ \A i \in 1..13 : Shows(details[i].Value, r[PanelColumns[i]])

\* C7: a click that matches no dam makes no selection and keeps the
\* full-extent viewport: zoom 3.5, centered on the reference point.
C7_NoMatchKeepsOverview ==
  (Clicked /\ MatchIdx = {}) => (details = EmptyPanel /\ AtOverview)

\* C7 as amended: a click that matches no dam makes no selection (the panel
\* is empty), and the viewport re-centers on the click at zoom 15.
C7_NoMatchRecenters ==
  (Clicked /\ MatchIdx = {}) => (details = EmptyPanel /\ CenteredOnClick(FocusZoom))

C7_Witness ==
  /\ Len(df) = 1 /\ df[1].LATITUDE = 380 /\ df[1].LONGITUDE = -980
  /\ Clicked /\ MatchIdx = {}
  /\ details = EmptyPanel
  /\ mapFigure.zoom = FocusZoom

\* C8: a click on the coordinates of exactly one dam shows that dam's 13
\* attributes and centers the viewport on the click at zoom 15, whatever was
\* shown before; with no click yet the panel is empty and the viewport is at
\* the reference center with zoom 3.5.
C8_ExactMatchFocuses ==
  /\ (Clicked /\ Cardinality(MatchIdx) = 1) =>
       (PanelShows(df[CHOOSE i \in MatchIdx : TRUE]) /\ CenteredOnClick(FocusZoom))
  /\ ~Clicked => (details = EmptyPanel /\ AtOverview)

C8_Witness ==
  /\ Len(df) = 2
  /\ Clicked /\ MatchIdx = {2}
  /\ PanelShows(df[2]) /\ ~PanelShows(df[1])
  /\ CenteredOnClick(FocusZoom)

\* C9: a click that matches no dam or more than one leaves the detail panel
\* as it was; only the viewport moves.
C9_PanelUnchanged ==
  [][(mapReady /\ clickData'.points # <<>>
        /\ Cardinality({i \in DOMAIN df :
                          /\ df[i].LATITUDE = clickData'.points[1].lat
                          /\ df[i].LONGITUDE = clickData'.points[1].lon}) # 1)
       => details' = details]_vars

\* C9 as amended: a click that matches no dam empties the detail panel, a
\* click that matches several shows the first of them in inventory order,
\* whatever the panel showed before; the viewport re-centers on the click at
\* zoom 15.
C9_UnmatchedClickReplacesPanel ==
  (Clicked /\ Cardinality(MatchIdx) # 1) =>
    /\ CenteredOnClick(FocusZoom)
    /\ IF MatchIdx = {} THEN details = EmptyPanel
       ELSE PanelShows(df[CHOOSE i \in MatchIdx : \A j \in MatchIdx : i <= j])

C9_Witness ==
  /\ Clicked /\ MatchIdx = {1, 2}
  /\ df[1] # df[2]
  /\ PanelShows(df[1]) /\ ~PanelShows(df[2])
  /\ CenteredOnClick(FocusZoom)

====
